---- MODULE Spec2Model ----
(***************************************************************************)
(* Conversation-state orchestration of the Matrix web client:              *)
(*   - the message timeline kept in #messages-container (src/app.js,       *)
(*     src/matrix.js): live delivery, echo suppression, initial load,      *)
(*     backward pagination, decryption replacement;                        *)
(*   - the call signalling of WebRTCManager (src/unnamed/part_000).        *)
(*                                                                         *)
(* JavaScript runs one task at a time; an async function gives up control  *)
(* only at an await.  An await of a network-bound promise (pagination, a   *)
(* key request, a send, getUserMedia, placeCall, ...) is a suspension      *)
(* point of the model; a chain of awaits on already settled promises runs  *)
(* within the step that started it.                                        *)
(***************************************************************************)
EXTENDS Naturals, Integers, Sequences, FiniteSets, TLC

\* ---------------------------------------------------------------- bounds
MaxEvents == 3        \* event ids are 1..MaxEvents
MaxOlder == 1         \* events that start in the server's older history
MaxLoaders == 1       \* loadMessages invocations in flight at once
ClientHeight == 4     \* height of the scroll viewport
MaxCalls == 2         \* call objects (outgoing and incoming), ids 1..MaxCalls
MaxStreams == 2       \* local media streams getUserMedia hands out
MaxMakeCalls == 1     \* makeCall invocations in flight at once
MaxRuns == 3          \* classifications and retries of the one event
MaxAttempts == 3      \* sendTextMessage calls counted per sendMessage
MaxItems == 3         \* events of the conversation in the batch model, ids 1..MaxItems

\* ------------------------------------------------------ program constants
SentinelHeight == 1   \* topSentinel.style.height = '1px'
PageLimit == 10       \* matrixClient.loadOlderMessages(roomId, 10)
MessagesLimit == 50   \* getRoomMessages(roomId, limit = 50)

NoRoom == "none"
RoomA == "A"
RoomB == "B"            \* a second conversation, without events
NoId == 0
EventIds == 1..MaxEvents
\* the call sites of loadMessages: openConversation and the Retry button
Loaders == {"open", "retry"}
NoCall == 0
NoStream == 0
Calls == 1..MaxCalls
Streams == 1..MaxStreams
MakeSlots == 1..MaxMakeCalls
\* error.name of a rejected navigator.mediaDevices.getUserMedia
MediaErrors == {"NotAllowedError", "NotFoundError", "NotReadableError", "AbortError"}

VARIABLES
    \* protocol client (collaborator) state
    evState,        \* per event: "none" | "clear" | "failed"
    timeline,       \* the room's live timeline, oldest first
    history,        \* older events still on the server, oldest first
    nextId,         \* next event id the server assigns
    \* src/app.js globals and the DOM
    currentRoomId,
    dom,            \* children of #messages-container after the sentinel
    hasSentinel,    \* #messages-top-sentinel exists
    observing,      \* an IntersectionObserver watches the current sentinel
    scrollTop,
    isLoadingOlder,
    canLoadMore,
    older,          \* the loadOlderMessages invocation in flight
    loaders,        \* the loadMessages invocations in flight
    liveTasks,      \* events whose addMessageToUI awaits a key request
    \* src/matrix.js
    pendingEchos,
    sendTask,       \* sendMessage invocation before the server has the event
    sendAttempts,   \* sendTextMessage calls of the current / latest sendMessage
    sendError,      \* error.name of the latest failed attempt of that invocation
    sendPc,         \* per own event: "none" | "accepted" | "responded"
    \* history of the run, read by the properties only
    echoSeen,       \* per own event: "no" | "suppressed" | "rendered" | "late" (after expiry)
    olderLog,       \* what the loadOlderMessages in flight / last done saw
    lastCall,       \* outcome of a loadOlderMessages call, in the state right after it
    \* WebRTCManager (src/unnamed/part_000)
    currentCall,
    localStream,
    remoteStream,
    isVideo,
    isInCall,
    mk,             \* the makeCall invocations in flight
    incPc,          \* per incoming call: where its handleIncomingCall stands
    handlersOn,     \* calls that went through setupCallEventHandlers
    uiInCall,       \* inCall of the latest updateCallUI(inCall, isVideo)
    toasts,         \* what the latest step that called showCallError showed
    \* the call objects and media streams of the collaborators
    callState,      \* per call: "none" | "ringing" | "live" | "ended"
    callVideo,      \* per incoming call: it is a video call
    streams,        \* per stream: "none" | "live" | "stopped"
    nextCall,
    nextStream,
    lastMediaError, \* error.name of the getUserMedia failure the last step handled
    \* one event under formatEventToMessage / retryDecryption (src/matrix.js)
    clsEvent,       \* the event: its shape and its decryption state
    me,             \* this.currentUserId
    clsMsg,         \* the Message the latest classification returned
    clsPrev,        \* the Message the classification before it returned
    keyReqs,        \* room key requests handed to the crypto engine
    clsOp,          \* the operation of the latest step
    clsRuns,
    \* one media message under createMediaElement / getMediaUrl (src/app.js)
    mediaIn,        \* its mediaType, url and file
    mediaNet,       \* what the network answered in the latest resolution
    mediaOut        \* the handle returned and the element built from it

\* one conversation whose events have a shape each (batch model)
VARIABLES
    bShape,         \* per event: what it is and whether its key request / media fetch fails
    bHistory,       \* events still only on the server, oldest first
    bTimeline,      \* room.getLiveTimeline().getEvents(), oldest first
    bQueue,         \* events the protocol client has yet to deliver
    bDom,           \* message nodes of #messages-container, top to bottom
    bLoaded,        \* the conversation is open and loadMessages has run
    bObserving,     \* setupInfiniteScroll has run
    bOp,            \* the latest operation and the event it was about
    bNew            \* nodes the latest loadOlderMessages inserted, in insertion order

batchVars == <<bShape, bHistory, bTimeline, bQueue, bDom, bLoaded, bObserving, bOp, bNew>>

tlVars == <<evState, timeline, history, nextId, currentRoomId, dom, hasSentinel,
            observing, scrollTop, isLoadingOlder, canLoadMore, older, loaders,
            liveTasks, pendingEchos, sendTask, sendPc, echoSeen, olderLog,
            lastCall,
            sendAttempts, sendError>>

callVars == <<currentCall, localStream, remoteStream, isVideo, isInCall, mk, incPc,
              handlersOn, uiInCall, toasts, callState, callVideo, streams, nextCall,
              nextStream, lastMediaError>>

pureVars == <<clsEvent, me, clsMsg, clsPrev, keyReqs, clsOp, clsRuns, mediaIn, mediaNet,
              mediaOut>>

vars == <<tlVars, callVars, pureVars, batchVars>>

\* ---------------------------------------------------------------- helpers
Max(a, b) == IF a >= b THEN a ELSE b
Min(a, b) == IF a <= b THEN a ELSE b

RECURSIVE Reverse(_)
Reverse(s) == IF s = <<>> THEN <<>> ELSE Append(Reverse(Tail(s)), Head(s))

\* s.slice(-n)
SliceLast(s, n) ==
    IF Len(s) <= n THEN s ELSE SubSeq(s, Len(s) - n + 1, Len(s))

Node(e, k) == [id |-> e, kind |-> k]
Notice == Node(NoId, "notice")

\* rendered height of a node: an error node carries the Retry button
NodeHeight(n) ==
    CASE n.kind = "error" -> 3
      [] OTHER -> 2

RECURSIVE SumHeights(_)
SumHeights(d) == IF d = <<>> THEN 0 ELSE NodeHeight(Head(d)) + SumHeights(Tail(d))

ContentHeight(d, s) == (IF s THEN SentinelHeight ELSE 0) + SumHeights(d)
\* Element.scrollHeight: never less than the viewport
ScrollHeight(d, s) == Max(ContentHeight(d, s), ClientHeight)
MaxScrollTop(d, s) == ScrollHeight(d, s) - ClientHeight
\* assigning Element.scrollTop clamps
Clamp(t, d, s) == Min(Max(t, 0), MaxScrollTop(d, s))

\* ids carried by [data-event-id] nodes
DomIds(d) == {d[i].id : i \in DOMAIN d} \ {NoId}
Count(d, e) == Cardinality({i \in DOMAIN d : d[i].id = e})
\* document.querySelector(`[data-event-id="${e}"]`): the first match
FirstIndex(d, e) == CHOOSE i \in DOMAIN d : d[i].id = e /\ \A j \in 1..(i-1) : d[j].id # e

\* scrollToBottom()
scrollToBottom(d, s) == Clamp(ScrollHeight(d, s), d, s)

\* formatEventToMessage: the kind it returns for an event in state st
formatEventToMessage(e, st) ==
    IF st = "failed" THEN Node(e, "error") ELSE Node(e, "text")

\* The classification loop `for (event of events) await formatEventToMessage`
\* from index i on: it runs through events that need no key request and stops
\* at the first undecryptable one (its key request suspends) or past the end.
RECURSIVE FormatRun(_, _, _, _)
FormatRun(events, i, msgs, st) ==
    IF i > Len(events) THEN [idx |-> i, msgs |-> msgs]
    ELSE IF st[events[i]] = "failed" THEN [idx |-> i, msgs |-> msgs]
    ELSE FormatRun(events, i + 1, Append(msgs, formatEventToMessage(events[i], st[events[i]])), st)

IdleOlder == [pc |-> "idle", idx |-> 0, msgs |-> <<>>, more |-> FALSE,
              prevScrollHeight |-> 0, prevScrollTop |-> 0]
IdleLoader == [pc |-> "idle", snap |-> <<>>, idx |-> 0, msgs |-> <<>>]
NoLog == [clean |-> FALSE, done |-> FALSE, failed |-> FALSE, preDom |-> <<>>, preTop |-> 0,
          entryTop |-> 0]

\* ------------------------------------------------------------------- Init
InitTimeline ==
    /\ \E h \in 0..MaxOlder :
         \E st \in [1..h -> {"clear", "failed"}] :
            /\ history = [i \in 1..h |-> i]
            /\ evState = [e \in EventIds |-> IF e <= h THEN st[e] ELSE "none"]
            /\ nextId = h + 1
    /\ timeline = <<>>
    /\ currentRoomId = NoRoom
    /\ dom = <<>>
    /\ hasSentinel = FALSE
    /\ observing = FALSE
    /\ scrollTop = 0
    /\ isLoadingOlder = FALSE
    /\ canLoadMore = TRUE
    /\ older = IdleOlder
    /\ loaders = [l \in Loaders |-> IdleLoader]
    /\ liveTasks = {}
    /\ pendingEchos = {}
    /\ sendTask = "idle"
    /\ sendAttempts = 0
    /\ sendError = "none"
    /\ sendPc = [e \in EventIds |-> "none"]
    /\ echoSeen = [e \in EventIds |-> "no"]
    /\ olderLog = NoLog
    /\ lastCall = "none"

IdleMake == [pc |-> "idle", isVideo |-> FALSE, call |-> NoCall]

\* the WebRTCManager constructor; no call object or stream exists yet
InitCalls ==
    /\ currentCall = NoCall
    /\ localStream = NoStream
    /\ remoteStream = NoStream
    /\ isVideo = FALSE
    /\ isInCall = FALSE
    /\ mk = [m \in MakeSlots |-> IdleMake]
    /\ incPc = [c \in Calls |-> "none"]
    /\ handlersOn = {}
    /\ uiInCall = FALSE
    /\ toasts = {}
    /\ callState = [c \in Calls |-> "none"]
    /\ callVideo = [c \in Calls |-> FALSE]
    /\ streams = [s \in Streams |-> "none"]
    /\ nextCall = 1
    /\ nextStream = 1
    /\ lastMediaError = "none"

\* olderLog after a step of any operation other than loadOlderMessages: while a
\* loadOlderMessages is in flight the step is an interleaved operation; the
\* record of a finished one is kept for the state right after it only.
Interleaved == IF older.pc # "idle" THEN [NoLog EXCEPT !.clean = FALSE] ELSE NoLog

\* -------------------------------------------------- live delivery (matrix.js)
\* addMessageToUI after formatEventToMessage returned msg
AppendToUI(msg) ==
    /\ dom' = Append(dom, msg)
    /\ scrollTop' = scrollToBottom(dom', hasSentinel)

IsPendingEcho_EverRegistered(e) ==
    sendPc[e] = "responded"

\* if (this.pendingEchos.has(event.getId()))
IsPendingEcho(e) ==
    e \in pendingEchos

\* handleRoomTimelineEvent for event e, already appended to the timeline
HandleRoomTimelineEvent(e, st) ==
    IF IsPendingEcho(e)
    THEN /\ echoSeen' = [echoSeen EXCEPT ![e] = "suppressed"]
         /\ UNCHANGED <<dom, scrollTop, liveTasks>>
    ELSE /\ echoSeen' = IF sendPc[e] = "none" THEN echoSeen
                        ELSE [echoSeen EXCEPT ![e] = IF sendPc[e] = "responded"
                                                     THEN "late" ELSE "rendered"]
         /\ IF currentRoomId # RoomA
            THEN UNCHANGED <<dom, scrollTop, liveTasks>>
            ELSE IF st = "failed"
                 THEN /\ liveTasks' = liveTasks \cup {e}
                      /\ UNCHANGED <<dom, scrollTop>>
                 ELSE /\ AppendToUI(formatEventToMessage(e, st))
                      /\ UNCHANGED liveTasks

\* Room.timeline for a new event of another user
LiveDeliver ==
    /\ nextId <= MaxEvents
    /\ \E st \in {"clear", "failed"} :
         /\ evState' = [evState EXCEPT ![nextId] = st]
         /\ timeline' = Append(timeline, nextId)
         /\ HandleRoomTimelineEvent(nextId, st)
    /\ nextId' = nextId + 1
    /\ olderLog' = Interleaved
    /\ lastCall' = "none"
    /\ UNCHANGED <<history, currentRoomId, hasSentinel, observing, isLoadingOlder,
                   canLoadMore, older, loaders, pendingEchos, sendTask, sendPc>>
    /\ UNCHANGED <<sendAttempts, sendError>>
    /\ UNCHANGED <<callVars, pureVars, batchVars>>

\* addMessageToUI resumes after the key request of formatEventToMessage: the
\* error Message was decided before the await
LiveResume ==
    /\ \E e \in liveTasks :
         /\ liveTasks' = liveTasks \ {e}
         /\ AppendToUI(Node(e, "error"))
    /\ olderLog' = Interleaved
    /\ lastCall' = "none"
    /\ UNCHANGED <<evState, timeline, history, nextId, currentRoomId, hasSentinel,
                   observing, isLoadingOlder, canLoadMore, older, loaders,
                   pendingEchos, sendTask, sendPc, echoSeen>>
    /\ UNCHANGED <<sendAttempts, sendError>>
    /\ UNCHANGED <<callVars, pureVars, batchVars>>

\* Event.decrypted for e after a successful decryption.  Both listeners
\* (setupGlobalEventHandlers, setupCryptoHandlers) run updateDecryptedMessageInUI
\* and both find the same first node; the first replaceWith swaps it and the
\* second acts on the detached node, which changes nothing.
updateDecryptedMessageInUI(e) ==
    IF e \in DomIds(dom)
    THEN /\ dom' = [dom EXCEPT ![FirstIndex(dom, e)] = formatEventToMessage(e, "clear")]
         /\ scrollTop' = scrollToBottom(dom', hasSentinel)
    ELSE UNCHANGED <<dom, scrollTop>>

DecryptSuccess ==
    /\ \E i \in DOMAIN timeline :
         /\ evState[timeline[i]] = "failed"
         /\ evState' = [evState EXCEPT ![timeline[i]] = "clear"]
         /\ updateDecryptedMessageInUI(timeline[i])
    /\ olderLog' = Interleaved
    /\ lastCall' = "none"
    /\ UNCHANGED <<timeline, history, nextId, currentRoomId, hasSentinel, observing,
                   isLoadingOlder, canLoadMore, older, loaders, liveTasks,
                   pendingEchos, sendTask, sendPc, echoSeen>>
    /\ UNCHANGED <<sendAttempts, sendError>>
    /\ UNCHANGED <<callVars, pureVars, batchVars>>

\* ------------------------------------------------ sendMessage (matrix.js)
\* handleSendMessage -> sendMessage -> await client.sendTextMessage
SendStart ==
    /\ currentRoomId = RoomA
    /\ sendTask \in {"idle", "threw"}
    /\ sendTask' = "sending"
    /\ sendAttempts' = 1
    /\ sendError' = "none"
    /\ olderLog' = Interleaved
    /\ lastCall' = "none"
    /\ UNCHANGED <<evState, timeline, history, nextId, currentRoomId, dom, hasSentinel,
                   observing, scrollTop, isLoadingOlder, canLoadMore, older, loaders,
                   liveTasks, pendingEchos, sendPc, echoSeen>>
    /\ UNCHANGED <<callVars, pureVars, batchVars>>

\* the homeserver takes the event and gives it its id; the response and the
\* echo both follow, in either order
SendAccepted ==
    /\ sendTask \in {"sending", "resending"}
    /\ nextId <= MaxEvents
    /\ evState' = [evState EXCEPT ![nextId] = "clear"]
    /\ sendPc' = [sendPc EXCEPT ![nextId] = "accepted"]
    /\ nextId' = nextId + 1
    /\ sendTask' = "idle"
    /\ olderLog' = Interleaved
    /\ lastCall' = "none"
    /\ UNCHANGED <<timeline, history, currentRoomId, dom, hasSentinel, observing,
                   scrollTop, isLoadingOlder, canLoadMore, older, loaders, liveTasks,
                   pendingEchos, echoSeen>>
    /\ UNCHANGED <<sendAttempts, sendError>>
    /\ UNCHANGED <<callVars, pureVars, batchVars>>

\* error.name of a rejected sendTextMessage
SendErrors == {"UnknownDeviceError", "Other"}

\* the catch of the first attempt retries on UnknownDeviceError; the catch
\* around the retry rethrows whatever it gets
ShouldRetry_Always(task, name) ==
    name = "UnknownDeviceError"

ShouldRetry(task, name) ==
    task = "sending" /\ name = "UnknownDeviceError"

\* catch: UnknownDeviceError -> setDeviceKnown ..., then the second sendTextMessage
SendUnknownDevice ==
    /\ sendTask \in {"sending", "resending"}
    /\ ShouldRetry(sendTask, "UnknownDeviceError")
    /\ sendAttempts < MaxAttempts
    /\ sendTask' = "resending"
    /\ sendAttempts' = sendAttempts + 1
    /\ sendError' = "UnknownDeviceError"
    /\ olderLog' = Interleaved
    /\ lastCall' = "none"
    /\ UNCHANGED <<evState, timeline, history, nextId, currentRoomId, dom, hasSentinel,
                   observing, scrollTop, isLoadingOlder, canLoadMore, older, loaders,
                   liveTasks, pendingEchos, sendPc, echoSeen>>
    /\ UNCHANGED <<callVars, pureVars, batchVars>>

\* any other failure, or a failure of the retry: thrown to handleSendMessage,
\* whose catch logs it
SendFail ==
    /\ sendTask \in {"sending", "resending"}
    /\ \E name \in SendErrors :
         /\ ~ShouldRetry(sendTask, name)
         /\ sendError' = name
    /\ sendTask' = "threw"
    /\ olderLog' = Interleaved
    /\ lastCall' = "none"
    /\ UNCHANGED <<evState, timeline, history, nextId, currentRoomId, dom, hasSentinel,
                   observing, scrollTop, isLoadingOlder, canLoadMore, older, loaders,
                   liveTasks, pendingEchos, sendPc, echoSeen, sendAttempts>>
    /\ UNCHANGED <<callVars, pureVars, batchVars>>

\* resp.event_id: pendingEchos.add + setTimeout(delete, 5000)
RegisterEcho(e) == pendingEchos \cup {e}

SendResponse ==
    /\ \E e \in EventIds :
         /\ sendPc[e] = "accepted"
         /\ sendPc' = [sendPc EXCEPT ![e] = "responded"]
         /\ pendingEchos' = RegisterEcho(e)
    /\ olderLog' = Interleaved
    /\ lastCall' = "none"
    /\ UNCHANGED <<evState, timeline, history, nextId, currentRoomId, dom, hasSentinel,
                   observing, scrollTop, isLoadingOlder, canLoadMore, older, loaders,
                   liveTasks, sendTask, echoSeen>>
    /\ UNCHANGED <<sendAttempts, sendError>>
    /\ UNCHANGED <<callVars, pureVars, batchVars>>

\* the 5000 ms timer of a registration fires
ExpireEcho ==
    /\ \E e \in pendingEchos : pendingEchos' = pendingEchos \ {e}
    /\ olderLog' = Interleaved
    /\ lastCall' = "none"
    /\ UNCHANGED <<evState, timeline, history, nextId, currentRoomId, dom, hasSentinel,
                   observing, scrollTop, isLoadingOlder, canLoadMore, older, loaders,
                   liveTasks, sendTask, sendPc, echoSeen>>
    /\ UNCHANGED <<sendAttempts, sendError>>
    /\ UNCHANGED <<callVars, pureVars, batchVars>>

\* Room.timeline for the server's copy of an event this client sent
EchoDeliver ==
    /\ \E e \in EventIds :
         /\ sendPc[e] # "none"
         /\ echoSeen[e] = "no"
         /\ timeline' = Append(timeline, e)
         /\ HandleRoomTimelineEvent(e, evState[e])
    /\ olderLog' = Interleaved
    /\ lastCall' = "none"
    /\ UNCHANGED <<evState, history, nextId, currentRoomId, hasSentinel, observing,
                   isLoadingOlder, canLoadMore, older, loaders, pendingEchos,
                   sendTask, sendPc>>
    /\ UNCHANGED <<sendAttempts, sendError>>
    /\ UNCHANGED <<callVars, pureVars, batchVars>>

\* ---------------------------------------------------- loadMessages (app.js)
LoaderFree(l) ==
    /\ loaders[l].pc = "idle"
    /\ Cardinality({k \in Loaders : loaders[k].pc # "idle"}) < MaxLoaders

\* the synchronous tail of loadMessages once getRoomMessages has returned msgs
RenderMessages(msgs) ==
    /\ hasSentinel' = TRUE
    /\ IF msgs = <<>>
       THEN /\ dom' = <<Notice>>
            /\ observing' = FALSE
            /\ scrollTop' = 0
       ELSE /\ dom' = msgs
            /\ observing' = TRUE
            /\ scrollTop' = scrollToBottom(dom', TRUE)

\* getRoomMessages from index i of its snapshot on, then the tail of loadMessages
LoadMessagesRun(l, snap, i, msgs) ==
    LET r == FormatRun(snap, i, msgs, evState) IN
    IF r.idx > Len(snap)
    THEN /\ RenderMessages(r.msgs)
         /\ loaders' = [loaders EXCEPT ![l] = IdleLoader]
    ELSE /\ loaders' = [loaders EXCEPT ![l] = [pc |-> "formatting", snap |-> snap,
                                               idx |-> r.idx, msgs |-> r.msgs]]
         /\ UNCHANGED <<dom, hasSentinel, observing, scrollTop>>

\* openConversation up to its first await (acknowledgeDevicesInRoom)
OpenConversation ==
    /\ LoaderFree("open")
    /\ loaders' = [loaders EXCEPT !["open"].pc = "ack"]
    /\ currentRoomId' = RoomA
    /\ olderLog' = Interleaved
    /\ lastCall' = "none"
    /\ UNCHANGED <<evState, timeline, history, nextId, dom, hasSentinel, observing,
                   scrollTop, isLoadingOlder, canLoadMore, older, liveTasks,
                   pendingEchos, sendTask, sendPc, echoSeen>>
    /\ UNCHANGED <<sendAttempts, sendError>>
    /\ UNCHANGED <<callVars, pureVars, batchVars>>

\* openConversation(RoomB) up to its first await
OpenOther ==
    /\ LoaderFree("open")
    /\ loaders' = [loaders EXCEPT !["open"].pc = "ackB"]
    /\ currentRoomId' = RoomB
    /\ olderLog' = Interleaved
    /\ lastCall' = "none"
    /\ UNCHANGED <<evState, timeline, history, nextId, dom, hasSentinel, observing,
                   scrollTop, isLoadingOlder, canLoadMore, older, liveTasks,
                   pendingEchos, sendTask, sendPc, echoSeen>>
    /\ UNCHANGED <<sendAttempts, sendError>>
    /\ UNCHANGED <<callVars, pureVars, batchVars>>

\* loadMessages(RoomB): getRoomMessages returns no message, the container is
\* cleared and gets the sentinel and the notice
LoadMessagesOther ==
    /\ loaders["open"].pc = "ackB"
    /\ RenderMessages(<<>>)
    /\ loaders' = [loaders EXCEPT !["open"] = IdleLoader]
    /\ olderLog' = Interleaved
    /\ lastCall' = "none"
    /\ UNCHANGED <<evState, timeline, history, nextId, currentRoomId, isLoadingOlder,
                   canLoadMore, older, liveTasks, pendingEchos, sendTask, sendPc,
                   echoSeen>>
    /\ UNCHANGED <<sendAttempts, sendError>>
    /\ UNCHANGED <<callVars, pureVars, batchVars>>

\* an acknowledge call throws: openConversation's catch, no loadMessages
OpenAckFail ==
    /\ loaders["open"].pc = "ack"
    /\ loaders' = [loaders EXCEPT !["open"] = IdleLoader]
    /\ olderLog' = Interleaved
    /\ lastCall' = "none"
    /\ UNCHANGED <<evState, timeline, history, nextId, currentRoomId, dom, hasSentinel,
                   observing, scrollTop, isLoadingOlder, canLoadMore, older, liveTasks,
                   pendingEchos, sendTask, sendPc, echoSeen>>
    /\ UNCHANGED <<sendAttempts, sendError>>
    /\ UNCHANGED <<callVars, pureVars, batchVars>>

\* the Retry button of an error node: await retryDecryption(eventId)
RetryClick ==
    /\ LoaderFree("retry")
    /\ \E i \in DOMAIN dom : dom[i].kind = "error"
    /\ loaders' = [loaders EXCEPT !["retry"].pc = "retry"]
    /\ olderLog' = Interleaved
    /\ lastCall' = "none"
    /\ UNCHANGED <<evState, timeline, history, nextId, currentRoomId, dom, hasSentinel,
                   observing, scrollTop, isLoadingOlder, canLoadMore, older, liveTasks,
                   pendingEchos, sendTask, sendPc, echoSeen>>
    /\ UNCHANGED <<sendAttempts, sendError>>
    /\ UNCHANGED <<callVars, pureVars, batchVars>>

\* loadMessages(roomId) is entered: the snapshot of the live timeline
LoadMessagesBegin ==
    /\ \E l \in Loaders :
         /\ loaders[l].pc \in {"ack", "retry"}
         /\ LoadMessagesRun(l, SliceLast(timeline, MessagesLimit), 1, <<>>)
    /\ olderLog' = Interleaved
    /\ lastCall' = "none"
    /\ UNCHANGED <<evState, timeline, history, nextId, currentRoomId, isLoadingOlder,
                   canLoadMore, older, liveTasks, pendingEchos, sendTask, sendPc,
                   echoSeen>>
    /\ UNCHANGED <<sendAttempts, sendError>>
    /\ UNCHANGED <<callVars, pureVars, batchVars>>

\* getRoomMessages resumes after a key request
LoadMessagesResume ==
    /\ \E l \in Loaders :
         /\ loaders[l].pc = "formatting"
         /\ LET t == loaders[l] IN
            LoadMessagesRun(l, t.snap, t.idx + 1,
                            Append(t.msgs, Node(t.snap[t.idx], "error")))
    /\ olderLog' = Interleaved
    /\ lastCall' = "none"
    /\ UNCHANGED <<evState, timeline, history, nextId, currentRoomId, isLoadingOlder,
                   canLoadMore, older, liveTasks, pendingEchos, sendTask, sendPc,
                   echoSeen>>
    /\ UNCHANGED <<sendAttempts, sendError>>
    /\ UNCHANGED <<callVars, pureVars, batchVars>>

\* ---------------------------------------------- loadOlderMessages (app.js)
SentinelVisible == hasSentinel /\ scrollTop < SentinelHeight

UserScrollToTop ==
    /\ scrollTop # 0
    /\ scrollTop' = 0
    /\ olderLog' = Interleaved
    /\ lastCall' = "none"
    /\ UNCHANGED <<evState, timeline, history, nextId, currentRoomId, dom, hasSentinel,
                   observing, isLoadingOlder, canLoadMore, older, loaders, liveTasks,
                   pendingEchos, sendTask, sendPc, echoSeen>>
    /\ UNCHANGED <<sendAttempts, sendError>>
    /\ UNCHANGED <<callVars, pureVars, batchVars>>

LoadOlderGuard_NoFlightCheck == canLoadMore
LoadOlderGuard_NoMoreCheck == ~isLoadingOlder

\* if (isLoadingOlder || !canLoadMore) return;
LoadOlderGuard == ~isLoadingOlder /\ canLoadMore

FilterNew_NoFilter(msgs, existingIds) == msgs

\* const newMessages = result.messages.filter(m => !existingIds.has(m.eventId))
FilterNew(msgs, existingIds) == SelectSeq(msgs, LAMBDA m : m.id \notin existingIds)

\* insertBefore(el, topSentinel.nextSibling) for each new message in turn
InsertAtTop(newMessages, d) == Reverse(newMessages) \o d

\* the value assigned to scrollTop after the insertions
AnchoredTop(prevTop, prevHeight, newHeight) == prevTop + (newHeight - prevHeight)

\* loadOlderMessages is called (by the observer callback or any other caller)
LoadOlderMessages ==
    /\ observing
    /\ IF LoadOlderGuard
       THEN /\ SentinelVisible
            /\ isLoadingOlder' = TRUE
            /\ older' = [IdleOlder EXCEPT !.pc = "paginating",
                                          !.prevScrollHeight = ScrollHeight(dom, hasSentinel),
                                          !.prevScrollTop = scrollTop]
            /\ lastCall' = "started"
            /\ olderLog' = [NoLog EXCEPT !.clean = TRUE]
       ELSE /\ lastCall' = "rejected"
            /\ UNCHANGED <<isLoadingOlder, older, olderLog>>
    /\ UNCHANGED <<evState, timeline, history, nextId, currentRoomId, dom, hasSentinel,
                   observing, scrollTop, canLoadMore, loaders, liveTasks, pendingEchos,
                   sendTask, sendPc, echoSeen>>
    /\ UNCHANGED <<sendAttempts, sendError>>
    /\ UNCHANGED <<callVars, pureVars, batchVars>>

ReleasedGuard_OnlyOnSuccess(failed) ==
    failed

\* finally { isLoadingOlder = false }: the value of the guard afterwards
ReleasedGuard(failed) ==
    FALSE

\* app.js loadOlderMessages from `canLoadMore = result.canLoadMore` to finally
LoadOlderFinish(msgs, more, failed) ==
    LET newMessages == FilterNew(msgs, DomIds(dom))
        throws == newMessages # <<>> /\ ~hasSentinel
        d2 == IF throws THEN dom ELSE InsertAtTop(newMessages, dom)
        top2 == IF throws THEN scrollTop
                ELSE Clamp(AnchoredTop(older.prevScrollTop, older.prevScrollHeight,
                                       ScrollHeight(d2, hasSentinel)), d2, hasSentinel)
    IN
    /\ canLoadMore' = more
    /\ dom' = d2
    /\ scrollTop' = top2
    /\ isLoadingOlder' = ReleasedGuard(failed)
    /\ older' = IdleOlder
    /\ olderLog' = [clean |-> olderLog.clean, done |-> TRUE, failed |-> failed, preDom |-> dom,
                    preTop |-> scrollTop, entryTop |-> older.prevScrollTop]

\* matrix.js loadOlderMessages from index i of timeline.getEvents() on
LoadOlderRun(tl, i, msgs, more) ==
    LET r == FormatRun(tl, i, msgs, evState) IN
    IF r.idx > Len(tl)
    THEN LoadOlderFinish(r.msgs, more, FALSE)
    ELSE /\ older' = [older EXCEPT !.pc = "formatting", !.idx = r.idx,
                                   !.msgs = r.msgs, !.more = more]
         /\ UNCHANGED <<dom, scrollTop, isLoadingOlder, canLoadMore, olderLog>>

\* paginateEventTimeline resolves: k older events are now in front of the
\* timeline, and more tells whether the server has further history
PaginateReturn ==
    /\ lastCall' = "none"
    /\ older.pc = "paginating"
    /\ \E k \in 0..Min(PageLimit, Len(history)), more \in BOOLEAN :
         /\ (history # <<>>) => k >= 1
         /\ (k < Len(history)) => more
         /\ history' = SubSeq(history, 1, Len(history) - k)
         /\ timeline' = SubSeq(history, Len(history) - k + 1, Len(history)) \o timeline
         /\ LoadOlderRun(timeline', 1, <<>>, more)
    /\ UNCHANGED <<evState, nextId, currentRoomId, hasSentinel, observing, loaders,
                   liveTasks, pendingEchos, sendTask, sendPc, echoSeen>>
    /\ UNCHANGED <<sendAttempts, sendError>>
    /\ UNCHANGED <<callVars, pureVars, batchVars>>

\* paginateEventTimeline rejects: matrix.js returns { messages: [], canLoadMore: false }
PaginateFail ==
    /\ lastCall' = "none"
    /\ older.pc = "paginating"
    /\ LoadOlderFinish(<<>>, FALSE, TRUE)
    /\ UNCHANGED <<evState, timeline, history, nextId, currentRoomId, hasSentinel,
                   observing, loaders, liveTasks, pendingEchos, sendTask, sendPc,
                   echoSeen>>
    /\ UNCHANGED <<sendAttempts, sendError>>
    /\ UNCHANGED <<callVars, pureVars, batchVars>>

\* the classification loop of matrix.js loadOlderMessages resumes after a key request
LoadOlderResume ==
    /\ lastCall' = "none"
    /\ older.pc = "formatting"
    /\ LoadOlderRun(timeline, older.idx + 1,
                    Append(older.msgs, Node(timeline[older.idx], "error")), older.more)
    /\ UNCHANGED <<evState, timeline, history, nextId, currentRoomId, hasSentinel,
                   observing, loaders, liveTasks, pendingEchos, sendTask, sendPc,
                   echoSeen>>
    /\ UNCHANGED <<sendAttempts, sendError>>
    /\ UNCHANGED <<callVars, pureVars, batchVars>>

\* ------------------------------------- WebRTCManager (src/unnamed/part_000)
\* cleanup(), for a manager whose localStream is ls and with the streams as st
cleanup(ls, st) ==
    /\ streams' = IF ls # NoStream THEN [st EXCEPT ![ls] = "stopped"] ELSE st
    /\ localStream' = NoStream
    /\ currentCall' = NoCall
    /\ remoteStream' = NoStream
    /\ isInCall' = FALSE
    /\ isVideo' = FALSE

\* the errorMessage getUserMedia's catch picks from error.name
MediaErrorMessage_Generic(name) ==
    "generic"

MediaErrorMessage(name) ==
    IF name = "NotAllowedError" THEN "denied"
    ELSE IF name = "NotFoundError" THEN "notfound"
    ELSE IF name = "NotReadableError" THEN "busy"
    ELSE "generic"

\* A click on a call button (shown while the UI is not in a call): initiateCall
\* and makeCall up to its await of getUserMedia.
MakeCall ==
    /\ currentRoomId = RoomA
    /\ ~uiInCall
    /\ \E m \in MakeSlots, v \in BOOLEAN :
         /\ mk[m].pc = "idle"
         /\ IF isInCall
            THEN UNCHANGED <<isVideo, mk>>
            ELSE /\ isVideo' = v
                 /\ mk' = [mk EXCEPT ![m] = [pc |-> "media", isVideo |-> v, call |-> NoCall]]
    /\ lastMediaError' = "none"
    /\ UNCHANGED <<currentCall, localStream, remoteStream, isInCall, incPc, handlersOn,
                   uiInCall, toasts, callState, callVideo, streams, nextCall, nextStream>>
    /\ UNCHANGED <<tlVars, pureVars, batchVars>>

\* getUserMedia resolved for a makeCall: the stream is stored, the call is
\* created, handlers are attached, the UI is switched and placeCall is awaited;
\* or createCall returned null and the catch block runs.
MakeCallMedia ==
    /\ nextStream <= MaxStreams
    /\ \E m \in MakeSlots :
         /\ mk[m].pc = "media"
         /\ \/ /\ nextCall <= MaxCalls
               /\ streams' = [streams EXCEPT ![nextStream] = "live"]
               /\ localStream' = nextStream
               /\ currentCall' = nextCall
               /\ isInCall' = TRUE
               /\ handlersOn' = handlersOn \cup {nextCall}
               /\ callState' = [callState EXCEPT ![nextCall] = "live"]
               /\ nextCall' = nextCall + 1
               /\ uiInCall' = TRUE
               /\ mk' = [mk EXCEPT ![m].pc = "placing", ![m].call = nextCall]
               /\ UNCHANGED <<remoteStream, isVideo, toasts>>
            \/ /\ cleanup(nextStream, [streams EXCEPT ![nextStream] = "live"])
               /\ toasts' = {"startfail"}
               /\ mk' = [mk EXCEPT ![m] = IdleMake]
               /\ UNCHANGED <<handlersOn, callState, nextCall, uiInCall>>
    /\ nextStream' = nextStream + 1
    /\ lastMediaError' = "none"
    /\ UNCHANGED <<incPc, callVideo>>
    /\ UNCHANGED <<tlVars, pureVars, batchVars>>

\* getUserMedia rejected for a makeCall: its catch shows the message for the
\* error and rethrows; makeCall's catch cleans up and shows its own message.
MakeCallMediaFail ==
    /\ \E m \in MakeSlots, name \in MediaErrors :
         /\ mk[m].pc = "media"
         /\ toasts' = {MediaErrorMessage(name), "startfail"}
         /\ mk' = [mk EXCEPT ![m] = IdleMake]
         /\ lastMediaError' = name
    /\ cleanup(localStream, streams)
    /\ UNCHANGED <<incPc, handlersOn, uiInCall, callState, callVideo, nextCall, nextStream>>
    /\ UNCHANGED <<tlVars, pureVars, batchVars>>

\* placeCall resolved: makeCall returns true and initiateCall updates the UI
MakeCallPlaced ==
    /\ \E m \in MakeSlots :
         /\ mk[m].pc = "placing"
         /\ mk' = [mk EXCEPT ![m] = IdleMake]
    /\ uiInCall' = TRUE
    /\ lastMediaError' = "none"
    /\ UNCHANGED <<currentCall, localStream, remoteStream, isVideo, isInCall, incPc,
                   handlersOn, toasts, callState, callVideo, streams, nextCall, nextStream>>
    /\ UNCHANGED <<tlVars, pureVars, batchVars>>

\* placeCall rejected: makeCall's catch
MakeCallPlaceFail ==
    /\ \E m \in MakeSlots :
         /\ mk[m].pc = "placing"
         /\ mk' = [mk EXCEPT ![m] = IdleMake]
         /\ callState' = [callState EXCEPT ![mk[m].call] = "ended"]
    /\ cleanup(localStream, streams)
    /\ toasts' = {"startfail"}
    /\ lastMediaError' = "none"
    /\ UNCHANGED <<incPc, handlersOn, uiInCall, callVideo, nextCall, nextStream>>
    /\ UNCHANGED <<tlVars, pureVars, batchVars>>

\* 'Call.incoming': handleIncomingCall up to its first await, which is
\* call.reject() while in a call and the incoming-call dialog otherwise.
IncomingCall ==
    /\ nextCall <= MaxCalls
    /\ \E v \in BOOLEAN :
         /\ callVideo' = [callVideo EXCEPT ![nextCall] = v]
         /\ IF isInCall
            THEN /\ incPc' = [incPc EXCEPT ![nextCall] = "autorejecting"]
                 /\ UNCHANGED isVideo
            ELSE /\ incPc' = [incPc EXCEPT ![nextCall] = "dialog"]
                 /\ isVideo' = v
    /\ callState' = [callState EXCEPT ![nextCall] = "ringing"]
    /\ nextCall' = nextCall + 1
    /\ lastMediaError' = "none"
    /\ UNCHANGED <<currentCall, localStream, remoteStream, isInCall, mk, handlersOn,
                   uiInCall, toasts, streams, nextStream>>
    /\ UNCHANGED <<tlVars, pureVars, batchVars>>

\* call.reject() resolved, from either call site
RejectReturn ==
    /\ \E c \in Calls :
         /\ incPc[c] \in {"autorejecting", "rejecting"}
         /\ incPc' = [incPc EXCEPT ![c] = "done"]
         /\ callState' = [callState EXCEPT ![c] = "ended"]
    /\ lastMediaError' = "none"
    /\ UNCHANGED <<currentCall, localStream, remoteStream, isVideo, isInCall, mk,
                   handlersOn, uiInCall, toasts, callVideo, streams, nextCall, nextStream>>
    /\ UNCHANGED <<tlVars, pureVars, batchVars>>

\* call.reject() threw, from either call site: handleIncomingCall's catch
RejectThrow ==
    /\ \E c \in Calls :
         /\ incPc[c] \in {"autorejecting", "rejecting"}
         /\ incPc' = [incPc EXCEPT ![c] = "done"]
    /\ cleanup(localStream, streams)
    /\ lastMediaError' = "none"
    /\ UNCHANGED <<mk, handlersOn, uiInCall, toasts, callState, callVideo, nextCall,
                   nextStream>>
    /\ UNCHANGED <<tlVars, pureVars, batchVars>>

\* Accept clicked in the dialog: handleIncomingCall up to await getUserMedia
DialogAccept ==
    /\ \E c \in Calls :
         /\ incPc[c] = "dialog"
         /\ incPc' = [incPc EXCEPT ![c] = "inmedia"]
         /\ currentCall' = c
         /\ isVideo' = callVideo[c]
    /\ isInCall' = TRUE
    /\ lastMediaError' = "none"
    /\ UNCHANGED <<localStream, remoteStream, mk, handlersOn, uiInCall, toasts,
                   callState, callVideo, streams, nextCall, nextStream>>
    /\ UNCHANGED <<tlVars, pureVars, batchVars>>

\* Decline clicked, or the dialog's 30 s timer: await call.reject()
DialogDecline ==
    /\ \E c \in Calls :
         /\ incPc[c] = "dialog"
         /\ incPc' = [incPc EXCEPT ![c] = "rejecting"]
    /\ lastMediaError' = "none"
    /\ UNCHANGED <<currentCall, localStream, remoteStream, isVideo, isInCall, mk,
                   handlersOn, uiInCall, toasts, callState, callVideo, streams,
                   nextCall, nextStream>>
    /\ UNCHANGED <<tlVars, pureVars, batchVars>>

\* getUserMedia resolved for an accepted call: the stream is stored, handlers
\* are attached and call.answer is awaited
IncomingMedia ==
    /\ nextStream <= MaxStreams
    /\ \E c \in Calls :
         /\ incPc[c] = "inmedia"
         /\ incPc' = [incPc EXCEPT ![c] = "answering"]
         /\ handlersOn' = handlersOn \cup {c}
    /\ streams' = [streams EXCEPT ![nextStream] = "live"]
    /\ localStream' = nextStream
    /\ nextStream' = nextStream + 1
    /\ lastMediaError' = "none"
    /\ UNCHANGED <<currentCall, remoteStream, isVideo, isInCall, mk, uiInCall, toasts,
                   callState, callVideo, nextCall>>
    /\ UNCHANGED <<tlVars, pureVars, batchVars>>

\* getUserMedia rejected for an accepted call: its catch shows the message
\* for the error and rethrows; handleIncomingCall's catch cleans up.
IncomingMediaFail ==
    /\ \E c \in Calls, name \in MediaErrors :
         /\ incPc[c] = "inmedia"
         /\ incPc' = [incPc EXCEPT ![c] = "done"]
         /\ toasts' = {MediaErrorMessage(name)}
         /\ lastMediaError' = name
    /\ cleanup(localStream, streams)
    /\ UNCHANGED <<mk, handlersOn, uiInCall, callState, callVideo, nextCall, nextStream>>
    /\ UNCHANGED <<tlVars, pureVars, batchVars>>

\* call.answer resolved: the UI is switched
IncomingAnswered ==
    /\ \E c \in Calls :
         /\ incPc[c] = "answering"
         /\ callState[c] = "ringing"
         /\ incPc' = [incPc EXCEPT ![c] = "done"]
         /\ callState' = [callState EXCEPT ![c] = "live"]
    /\ uiInCall' = TRUE
    /\ lastMediaError' = "none"
    /\ UNCHANGED <<currentCall, localStream, remoteStream, isVideo, isInCall, mk,
                   handlersOn, toasts, callVideo, streams, nextCall, nextStream>>
    /\ UNCHANGED <<tlVars, pureVars, batchVars>>

\* call.answer rejected: handleIncomingCall's catch
IncomingAnswerFail ==
    /\ \E c \in Calls :
         /\ incPc[c] = "answering"
         /\ incPc' = [incPc EXCEPT ![c] = "done"]
         /\ callState' = [callState EXCEPT ![c] = "ended"]
    /\ cleanup(localStream, streams)
    /\ lastMediaError' = "none"
    /\ UNCHANGED <<mk, handlersOn, uiInCall, toasts, callVideo, nextCall, nextStream>>
    /\ UNCHANGED <<tlVars, pureVars, batchVars>>

\* The remote side ends call c.  A call with handlers attached emits 'hangup'
\* and state 'ended': handleCallHangup / handleCallStateChange -> handleCallEnded.
RemoteEnds ==
    /\ \E c \in Calls :
         /\ callState[c] \in {"ringing", "live"}
         /\ callState' = [callState EXCEPT ![c] = "ended"]
         /\ IF c \in handlersOn
            THEN /\ cleanup(localStream, streams)
                 /\ uiInCall' = FALSE
            ELSE UNCHANGED <<currentCall, localStream, remoteStream, isVideo, isInCall,
                             streams, uiInCall>>
    /\ lastMediaError' = "none"
    /\ UNCHANGED <<mk, incPc, handlersOn, toasts, callVideo, nextCall, nextStream>>
    /\ UNCHANGED <<tlVars, pureVars, batchVars>>

\* 'feeds_changed' of a call with handlers attached and a remote feed
FeedsChanged ==
    /\ \E c \in handlersOn :
         /\ callState[c] = "live"
         /\ remoteStream # c
         /\ remoteStream' = c
    /\ lastMediaError' = "none"
    /\ UNCHANGED <<currentCall, localStream, isVideo, isInCall, mk, incPc, handlersOn,
                   uiInCall, toasts, callState, callVideo, streams, nextCall, nextStream>>
    /\ UNCHANGED <<tlVars, pureVars, batchVars>>

\* 'error' of a call with handlers attached: a toast and nothing else
CallError ==
    /\ \E c \in handlersOn : callState[c] # "ended"
    /\ toasts # {"callerror"}
    /\ toasts' = {"callerror"}
    /\ lastMediaError' = "none"
    /\ UNCHANGED <<currentCall, localStream, remoteStream, isVideo, isInCall, mk, incPc,
                   handlersOn, uiInCall, callState, callVideo, streams, nextCall,
                   nextStream>>
    /\ UNCHANGED <<tlVars, pureVars, batchVars>>

\* A click on the hangup button (shown while the UI is in a call): hangupCall
\* and hangup.  The call's hangup() returns or throws within the step; either
\* way cleanup runs, and hangupCall switches the UI back.
Hangup ==
    /\ uiInCall
    /\ \/ /\ currentCall # NoCall
          /\ callState' = [callState EXCEPT ![currentCall] = "ended"]
       \/ UNCHANGED callState
    /\ cleanup(localStream, streams)
    /\ uiInCall' = FALSE
    /\ lastMediaError' = "none"
    /\ UNCHANGED <<mk, incPc, handlersOn, toasts, callVideo, nextCall, nextStream>>
    /\ UNCHANGED <<tlVars, pureVars, batchVars>>

\* ------------------------- formatEventToMessage, retryDecryption (matrix.js)
\* The event shapes: protocol type, message subtype, relation and sender.
\* "absent" stands for a field the event does not carry.
EventTypes == {"m.room.message", "m.reaction", "m.call.invite", "m.call.hangup",
               "m.room.member", "m.room.name", "m.room.topic", "m.room.avatar",
               "m.sticker"}
Msgtypes == {"m.text", "m.notice", "m.emote", "m.image", "m.video", "m.audio",
             "m.file", "m.location", "m.unheard.of", "absent"}
RelTypes == {"m.replace", "m.annotation", "absent"}
Users == {"@a", "@b"}
DecStates == {"plain", "decrypted", "failed"}

\* events as the protocol client hands them over: a subtype only on room
\* messages, a relation only on room messages and reactions, no field of a
\* missing content
EventShapes ==
    {ev \in [type : EventTypes, msgtype : Msgtypes, rel : RelTypes,
             newContent : BOOLEAN, hasContent : BOOLEAN, sender : Users,
             dec : DecStates, hasUrl : BOOLEAN, hasFile : BOOLEAN] :
        /\ ev.type # "m.room.message" => ev.msgtype = "absent"
        /\ ev.type \notin {"m.room.message", "m.reaction"} => ev.rel = "absent"
        /\ ev.rel # "m.replace" => ~ev.newContent
        /\ ~ev.hasContent => (ev.msgtype = "absent" /\ ev.rel = "absent")
        /\ ev.msgtype \notin {"m.image", "m.video", "m.audio", "m.file"}
              => (~ev.hasUrl /\ ~ev.hasFile)}

IdleShape == [type |-> "m.room.message", msgtype |-> "m.text", rel |-> "absent",
              newContent |-> FALSE, hasContent |-> TRUE, sender |-> "@a",
              dec |-> "plain", hasUrl |-> FALSE, hasFile |-> FALSE]

NoMsg == [kind |-> "none", tag |-> "absent", target |-> "absent", key |-> "absent",
          content |-> "absent", senderId |-> "absent", isOwn |-> "absent",
          url |-> "absent", file |-> "absent"]
\* the outcome of a call that threw instead of returning
Raised == [NoMsg EXCEPT !.kind = "raised"]

\* sender === this.currentUserId
IsOwn(ev, who) == IF ev.sender = who THEN "true" ELSE "false"

\* the relation target, content['m.relates_to'].event_id
RelTarget(ev) == IF ev.rel = "absent" THEN "absent" ELSE "$target"

\* content.body || ''
Body(ev) == IF ev.hasContent THEN "hi" ELSE ""

\* unsigned.decryption_error || event.decryptionFailureReason || default text
ErrorText_CountsRequests(ev) ==
    IF keyReqs > 0 THEN "retrying" ELSE "Unable to decrypt"

ErrorText(ev) ==
    "Unable to decrypt"

IsTextMsgtype_NoEmote(m) ==
    m \in {"m.text", "m.notice"}

IsTextMsgtype(m) ==
    m \in {"m.text", "m.notice", "m.emote"}

IsMediaMsgtype(m) == m \in {"m.image", "m.video", "m.audio", "m.file"}

\* type.startsWith('m.call.')
IsCallType(t) == t \in {"m.call.invite", "m.call.hangup"}

\* the final return of formatEventToMessage
UnknownMessage_Raises(ev, who) ==
    Raised

UnknownMessage(ev, who) ==
    [kind |-> "unknown", tag |-> ev.type, target |-> "absent", key |-> "absent",
     content |-> "json", senderId |-> ev.sender, isOwn |-> IsOwn(ev, who),
     url |-> "absent", file |-> "absent"]

\* formatEventToMessage(event, room) with this.currentUserId = who: the
\* Message it returns, or Raised when it throws
FormatMessage(ev, who) ==
    LET base == [NoMsg EXCEPT !.senderId = ev.sender, !.isOwn = IsOwn(ev, who)] IN
    IF ev.dec = "failed"
    THEN [base EXCEPT !.kind = "error", !.tag = "m.notice", !.content = ErrorText(ev)]
    ELSE IF ev.type = "m.room.message" /\ ev.rel = "m.replace" /\ ev.newContent
    THEN [base EXCEPT !.kind = "edit", !.target = RelTarget(ev), !.content = "new"]
    ELSE IF ev.type = "m.room.message" /\ IsTextMsgtype(ev.msgtype)
    THEN [base EXCEPT !.kind = "text", !.tag = ev.msgtype, !.content = Body(ev)]
    ELSE IF ev.type = "m.room.message" /\ IsMediaMsgtype(ev.msgtype)
    THEN [base EXCEPT !.kind = "media", !.tag = ev.msgtype, !.content = Body(ev),
                      !.url = IF ev.hasUrl THEN "mxc" ELSE "null",
                      !.file = IF ev.hasFile THEN "descriptor" ELSE "null"]
    ELSE IF ev.type = "m.room.message" /\ ev.msgtype = "m.location"
    THEN [base EXCEPT !.kind = "location", !.content = Body(ev)]
    ELSE IF ev.type = "m.reaction"
    THEN [base EXCEPT !.kind = "reaction", !.target = RelTarget(ev),
                      !.key = IF ev.rel = "absent" THEN "absent" ELSE "+1"]
    ELSE IF IsCallType(ev.type)
    THEN [base EXCEPT !.kind = "call", !.tag = ev.type]
    ELSE IF ev.type = "m.room.member"
    THEN [base EXCEPT !.kind = "system", !.tag = "member", !.isOwn = "absent"]
    ELSE IF ev.type \in {"m.room.name", "m.room.topic", "m.room.avatar"}
    THEN [base EXCEPT !.kind = "system", !.tag = ev.type, !.isOwn = "absent"]
    ELSE UnknownMessage(ev, who)

\* One call of formatEventToMessage on the event.  The decryption-failure
\* branch asks the crypto engine for the room key before it returns.
Classify ==
    /\ clsRuns < MaxRuns
    /\ clsRuns' = clsRuns + 1
    /\ clsMsg' = FormatMessage(clsEvent, me)
    /\ clsPrev' = clsMsg
    /\ keyReqs' = IF clsEvent.dec = "failed" THEN keyReqs + 1 ELSE keyReqs
    /\ clsOp' = "classify"
    /\ UNCHANGED <<clsEvent, me, mediaIn, mediaNet, mediaOut>>
    /\ UNCHANGED <<tlVars, callVars, batchVars>>

\* retryDecryption(eventId) for the event: the key request, then
\* event.attemptDecryption, which may or may not obtain the cleartext
RetryDecryption ==
    /\ clsRuns < MaxRuns
    /\ clsRuns' = clsRuns + 1
    /\ keyReqs' = keyReqs + 1
    /\ \E got \in BOOLEAN :
         clsEvent' = IF got /\ clsEvent.dec = "failed"
                     THEN [clsEvent EXCEPT !.dec = "decrypted"]
                     ELSE clsEvent
    /\ clsMsg' = IF clsEvent'.dec # clsEvent.dec THEN NoMsg ELSE clsMsg
    /\ clsPrev' = NoMsg
    /\ clsOp' = "retry"
    /\ UNCHANGED <<me, mediaIn, mediaNet, mediaOut>>
    /\ UNCHANGED <<tlVars, callVars, batchVars>>

\* --------------------------------- getMediaUrl, createMediaElement (app.js)
MediaTypes == {"m.image", "m.video", "m.audio", "m.file"}
\* message.url: a well-formed mxc locator, a malformed one, or none
UrlShapes == {"mxc", "malformed", "absent"}
MediaInputs == [mediaType : MediaTypes, url : UrlShapes, file : BOOLEAN]
\* what the network does with each source, were it asked
NetOutcomes == [decrypt : {"ok", "fail"}, primary : {"ok", "http-error", "fail"},
                legacy : {"ok", "fail"}]
IdleNet == [decrypt |-> "ok", primary |-> "ok", legacy |-> "ok"]
NoMedia == [result |-> "none", attempts |-> <<>>, src |-> FALSE, alt |-> "none",
            thumb |-> FALSE]

\* mxcToHttp: null unless the locator matches mxc://server/mediaId
mxcToHttp(url) == IF url = "mxc" THEN "http" ELSE "null"

\* getMediaUrl(client, baseUrl, url, file, thumbnail): the handle it returns
\* ("blob" or "null") and the sources it asked, in order
getMediaUrl_FallsBack(url, file, net) ==
    IF file /\ net.decrypt = "ok"
    THEN [handle |-> "blob", attempts |-> <<"decrypt">>]
    ELSE IF url = "absent" \/ mxcToHttp(url) = "null"
    THEN [handle |-> "null", attempts |-> IF file THEN <<"decrypt">> ELSE <<>>]
    ELSE [handle |-> IF net.primary = "ok" THEN "blob" ELSE "null",
          attempts |-> IF file THEN <<"decrypt", "primary">> ELSE <<"primary">>]

getMediaUrl(url, file, net) ==
    IF file
    THEN [handle |-> IF net.decrypt = "ok" THEN "blob" ELSE "null",
          attempts |-> <<"decrypt">>]
    ELSE IF url = "absent" \/ mxcToHttp(url) = "null"
    THEN [handle |-> "null", attempts |-> <<>>]
    ELSE [handle |-> IF net.primary = "ok" THEN "blob" ELSE "null",
          attempts |-> <<"primary">>]

\* the thumbnail argument of getMediaUrl: { width: 800, height: 600 } for an
\* image, none otherwise; with it mxcToHttp builds the bounded variant
ThumbnailAsked(mediaType) == mediaType = "m.image"

\* createMediaElement(message) for a media Message: the element gets its
\* source when a handle came back; an image without one says so in its alt
CreateMediaElement ==
    /\ mediaOut = NoMedia
    /\ \E net \in NetOutcomes :
         /\ mediaNet' = net
         /\ LET r == getMediaUrl(mediaIn.url, mediaIn.file, net) IN
            mediaOut' = [result |-> r.handle, attempts |-> r.attempts,
                         src |-> r.handle = "blob",
                         alt |-> IF mediaIn.mediaType = "m.image" /\ r.handle # "blob"
                                 THEN "Failed to load image" ELSE "filename",
                         thumb |-> ThumbnailAsked(mediaIn.mediaType)]
    /\ UNCHANGED <<clsEvent, me, clsMsg, clsPrev, keyReqs, clsOp, clsRuns, mediaIn>>
    /\ UNCHANGED <<tlVars, callVars, batchVars>>

\* the same message is rendered again: resolution starts over, nothing cached
RenderAgain ==
    /\ mediaOut # NoMedia
    /\ mediaOut' = NoMedia
    /\ mediaNet' = IdleNet
    /\ UNCHANGED <<clsEvent, me, clsMsg, clsPrev, keyReqs, clsOp, clsRuns, mediaIn>>
    /\ UNCHANGED <<tlVars, callVars, batchVars>>

\* ------------------- a batch of events of mixed kinds (app.js, matrix.js)
ItemIds == 1..MaxItems
\* an event is a text message, an undecryptable one (bad: its key request
\* rejects), a media message (bad: its content cannot be fetched), an edit
\* of another event, or a reaction
ItemShapes ==
    {[kind |-> "text", bad |-> FALSE], [kind |-> "edit", bad |-> FALSE],
     [kind |-> "reaction", bad |-> FALSE]}
    \cup [kind : {"failed", "media"}, bad : BOOLEAN]
TextShape == [kind |-> "text", bad |-> FALSE]
\* relates.event_id of the edit with this id
EditTarget(e) == IF e = 1 THEN 2 ELSE 1
NoOp == [name |-> "none", id |-> NoId]
NullElement == [id |-> NoId, kind |-> "null", body |-> "none", src |-> FALSE]

\* formatEventToMessage: the kind of the Message for an event of this shape
MessageKind(shape) == IF shape.kind = "failed" THEN "error" ELSE shape.kind

FormatThrows_KeyRequest(shape) ==
    shape.kind = "failed" /\ shape.bad

\* formatEventToMessage awaits the key request inside its own try / catch
FormatThrows(shape) ==
    FALSE

\* the classification loop of getRoomMessages and of matrix.js
\* loadOlderMessages: one try around the whole loop, [] from its catch
ClassifyAll(ids, shapes) ==
    IF \E i \in DOMAIN ids : FormatThrows(shapes[ids[i]]) THEN <<>> ELSE ids

ElementFor_EditNode(e, shape) ==
    IF shape.kind = "reaction" THEN NullElement
    ELSE [id |-> e, kind |-> MessageKind(shape), body |-> "orig", src |-> FALSE]

\* createMessageElement: null for a reaction and for an edit, else the node;
\* a media node has a source when getMediaUrl returned a handle
ElementFor(e, shape) ==
    IF shape.kind \in {"reaction", "edit"} THEN NullElement
    ELSE [id |-> e, kind |-> MessageKind(shape), body |-> "orig",
          src |-> (shape.kind = "media" /\ ~shape.bad)]

\* createMessageElement for an edit: the body of the first node carrying the
\* target id is rewritten, when there is one
ApplyEdit(d, target) ==
    IF target \in DomIds(d)
    THEN [d EXCEPT ![FirstIndex(d, target)].body = "edited"]
    ELSE d

\* the document after createMessageElement(message) ran
AfterElement(e, shape, d) ==
    IF shape.kind = "edit" THEN ApplyEdit(d, EditTarget(e)) ELSE d

\* loadMessages: for (message of messages) { el = await createMessageElement;
\* if (el) appendChild(el) }
RECURSIVE AppendAll(_, _, _)
AppendAll(ids, shapes, d) ==
    IF ids = <<>> THEN d
    ELSE LET e == Head(ids)
             d1 == AfterElement(e, shapes[e], d)
             el == ElementFor(e, shapes[e])
         IN AppendAll(Tail(ids), shapes, IF el = NullElement THEN d1 ELSE Append(d1, el))

\* app.js loadOlderMessages: for (message of newMessages) { el = ...;
\* if (el) insertBefore(el, topSentinel.nextSibling) }
RECURSIVE InsertAll(_, _, _)
InsertAll(ids, shapes, d) ==
    IF ids = <<>> THEN d
    ELSE LET e == Head(ids)
             d1 == AfterElement(e, shapes[e], d)
             el == ElementFor(e, shapes[e])
         IN InsertAll(Tail(ids), shapes, IF el = NullElement THEN d1 ELSE <<el>> \o d1)

\* openConversation, loadMessages: the live timeline is classified and rendered
LoadBatch ==
    /\ ~bLoaded
    /\ LET messages == ClassifyAll(SliceLast(bTimeline, MessagesLimit), bShape) IN
         /\ bDom' = AppendAll(messages, bShape, <<>>)
         /\ bObserving' = (messages # <<>>)
    /\ bLoaded' = TRUE
    /\ bOp' = [name |-> "load", id |-> NoId]
    /\ bNew' = <<>>
    /\ UNCHANGED <<bShape, bHistory, bTimeline, bQueue>>
    /\ UNCHANGED <<tlVars, callVars, pureVars>>

\* loadOlderMessages: k older events come in front of the timeline, the whole
\* timeline is classified, what has no node yet is inserted after the sentinel
PageBatch ==
    /\ bObserving
    /\ bHistory # <<>>
    /\ \E k \in 1..Min(PageLimit, Len(bHistory)) :
         /\ bHistory' = SubSeq(bHistory, 1, Len(bHistory) - k)
         /\ bTimeline' = SubSeq(bHistory, Len(bHistory) - k + 1, Len(bHistory)) \o bTimeline
    /\ LET messages == ClassifyAll(bTimeline', bShape)
           newMessages == SelectSeq(messages, LAMBDA e : e \notin DomIds(bDom))
       IN /\ bDom' = InsertAll(newMessages, bShape, bDom)
          /\ bNew' = SelectSeq(newMessages,
                               LAMBDA e : ElementFor(e, bShape[e]) # NullElement)
    /\ bOp' = [name |-> "page", id |-> NoId]
    /\ UNCHANGED <<bShape, bQueue, bLoaded, bObserving>>
    /\ UNCHANGED <<tlVars, callVars, pureVars>>

\* Room.timeline: handleRoomTimelineEvent lets m.room.message and
\* m.room.encrypted through; addMessageToUI appends what createMessageElement
\* returned, and appendChild(null) throws inside that one call
LiveBatch ==
    /\ bQueue # <<>>
    /\ LET e == Head(bQueue)
           el == ElementFor(e, bShape[e])
           d1 == AfterElement(e, bShape[e], bDom)
       IN /\ bTimeline' = Append(bTimeline, e)
          /\ bOp' = [name |-> "live", id |-> e]
          /\ bDom' = IF ~bLoaded \/ bShape[e].kind = "reaction" THEN bDom
                     ELSE IF el = NullElement THEN d1
                     ELSE Append(d1, el)
    /\ bQueue' = Tail(bQueue)
    /\ bNew' = <<>>
    /\ UNCHANGED <<bShape, bHistory, bLoaded, bObserving>>
    /\ UNCHANGED <<tlVars, callVars, pureVars>>

\* Event.decrypted: the event turns out to be a text or an edit;
\* updateDecryptedMessageInUI renders it into a wrapper and swaps the node,
\* unless appendChild(null) threw before
DecryptedBatch ==
    /\ \E i \in DOMAIN bTimeline, kind \in {"text", "edit"} :
         LET e == bTimeline[i]
             shape == [kind |-> kind, bad |-> FALSE]
             el == ElementFor(e, shape)
         IN /\ bShape[e].kind = "failed"
            /\ bShape' = [bShape EXCEPT ![e] = shape]
            /\ bOp' = [name |-> "decrypted", id |-> e]
            /\ bDom' = IF e \notin DomIds(bDom) THEN bDom
                       ELSE IF el = NullElement THEN AfterElement(e, shape, bDom)
                       ELSE [AfterElement(e, shape, bDom) EXCEPT ![FirstIndex(bDom, e)] = el]
    /\ bNew' = <<>>
    /\ UNCHANGED <<bHistory, bTimeline, bQueue, bLoaded, bObserving>>
    /\ UNCHANGED <<tlVars, callVars, pureVars>>

\* no batch is under way
IdleBatch ==
    /\ bShape = [e \in ItemIds |-> TextShape]
    /\ bHistory = <<>>
    /\ bTimeline = <<>>
    /\ bQueue = <<>>
    /\ bDom = <<>>
    /\ bLoaded = FALSE
    /\ bObserving = FALSE
    /\ bOp = NoOp
    /\ bNew = <<>>

\* ------------------------------------------------------------ initial states
\* no classification and no media resolution has run
InitPure ==
    /\ clsMsg = NoMsg
    /\ clsPrev = NoMsg
    /\ keyReqs = 0
    /\ clsOp = "none"
    /\ clsRuns = 0
    /\ mediaNet = IdleNet
    /\ mediaOut = NoMedia

InitTL ==
    /\ InitTimeline
    /\ IdleBatch
    /\ InitCalls
    /\ InitPure
    /\ clsEvent = IdleShape
    /\ me = "@b"
    /\ mediaIn = [mediaType |-> "m.image", url |-> "mxc", file |-> FALSE]

\* any event shape, from either user, seen by either user
InitClassify ==
    /\ InitTimeline
    /\ IdleBatch
    /\ history = <<>>
    /\ InitCalls
    /\ InitPure
    /\ clsEvent \in EventShapes
    /\ me \in Users
    /\ mediaIn = [mediaType |-> "m.image", url |-> "mxc", file |-> FALSE]

\* any media message
InitMedia ==
    /\ InitTimeline
    /\ IdleBatch
    /\ history = <<>>
    /\ InitCalls
    /\ InitPure
    /\ clsEvent = IdleShape
    /\ me = "@b"
    /\ mediaIn \in MediaInputs

\* any three events, cut into server history, client timeline and events
\* yet to be delivered
InitBatch ==
    /\ InitTimeline
    /\ history = <<>>
    /\ InitCalls
    /\ InitPure
    /\ clsEvent = IdleShape
    /\ me = "@b"
    /\ mediaIn = [mediaType |-> "m.image", url |-> "mxc", file |-> FALSE]
    /\ bShape \in [ItemIds -> ItemShapes]
    /\ \E h \in 0..MaxItems : \E t \in h..MaxItems :
         /\ bHistory = [i \in 1..h |-> i]
         /\ bTimeline = [i \in 1..(t - h) |-> h + i]
         /\ bQueue = [i \in 1..(MaxItems - t) |-> t + i]
    /\ bDom = <<>>
    /\ bLoaded = FALSE
    /\ bObserving = FALSE
    /\ bOp = NoOp
    /\ bNew = <<>>

\* ------------------------------------------------------------ properties
SentIds == {e \in EventIds : sendPc[e] # "none"}

\* every send has its response and its echo, and nothing is in flight
EchoQuiescent ==
    /\ sendTask = "idle"
    /\ liveTasks = {}
    /\ \A l \in Loaders : loaders[l].pc = "idle"
    /\ \A e \in SentIds : sendPc[e] = "responded" /\ echoSeen[e] # "no"

\* C1: once every send of the open conversation has completed and each echo
\* arrived while its registration was still in pendingEchos (within the 5 s
\* window), the container holds exactly one node per sent eventId.
C1_OneNodePerSentEvent ==
    (/\ currentRoomId = RoomA
     /\ EchoQuiescent
     /\ \A e \in SentIds : echoSeen[e] = "suppressed")
    => \A e \in SentIds : Count(dom, e) = 1

\* C2: no two nodes of the container carry the same eventId, in any reachable
\* state of any interleaving of live delivery, loadMessages (also after
\* Retry), loadOlderMessages and decryption replacement.
C2_UniqueEventIds == \A e \in EventIds : Count(dom, e) <= 1

\* C3: a loadOlderMessages call that ran with no other operation interleaved
\* inserts no eventId that was rendered before it, and inserts every other
\* eventId at most once.
C3_NoReinsertion ==
    (olderLog.done /\ olderLog.clean)
    => \A e \in EventIds :
          /\ Count(olderLog.preDom, e) >= 1 => Count(dom, e) = Count(olderLog.preDom, e)
          /\ Count(olderLog.preDom, e) = 0 => Count(dom, e) <= 1

\* C3 witness: the page returned overlapped the rendered window (an event of
\* the timeline was already rendered) and the call inserted something.
C3_Witness ==
    /\ olderLog.done /\ olderLog.clean
    /\ \E i \in DOMAIN timeline : timeline[i] \in DomIds(olderLog.preDom)
    /\ Len(dom) > Len(olderLog.preDom)

\* C4: a loadOlderMessages call made while an earlier one has not completed
\* returns at once: it calls no pagination primitive, leaves nothing queued
\* and changes nothing the first invocation reads or writes.
C4_SingleFlight ==
    [][(older.pc # "idle" /\ lastCall' # "none")
        => (/\ lastCall' = "rejected"
            /\ UNCHANGED <<evState, timeline, history, nextId, currentRoomId, dom,
                           hasSentinel, observing, scrollTop, isLoadingOlder,
                           canLoadMore, older, loaders, liveTasks, pendingEchos,
                           sendTask, sendPc, echoSeen, olderLog,
                           sendAttempts, sendError>>)]_vars

\* C4 witness: a call was just rejected while the first awaits its page.
C4_Witness == lastCall = "rejected" /\ older.pc = "paginating"

\* C5: once canLoadMore is false it stays false, and no later
\* loadOlderMessages call starts a pagination request.
C5_StickyNoMore ==
    [][~canLoadMore
        => (/\ ~canLoadMore'
            /\ lastCall' # "started"
            /\ (older'.pc = "paginating" => older.pc = "paginating"))]_vars

\* C5 witness: pagination reported no more history and a later call was rejected.
C5_Witness == ~canLoadMore /\ lastCall = "rejected" /\ older.pc = "idle"

\* total rendered height of what the finished loadOlderMessages inserted
InsertedHeight == SumHeights(dom) - SumHeights(olderLog.preDom)

\* C6: when loadOlderMessages has inserted messages of total height H into a
\* container whose content already filled the viewport, scrollTop is its
\* pre-insertion value plus H (the value just before the insertion, or the one
\* the call recorded on entry).
C6_ScrollAnchor ==
    (olderLog.done /\ ContentHeight(olderLog.preDom, hasSentinel) >= ClientHeight)
    => \/ scrollTop = olderLog.preTop + InsertedHeight
       \/ scrollTop = olderLog.entryTop + InsertedHeight

\* Calls the manager has placed or answered (handlers attached, local media
\* acquired for them) and that have not ended.
EngagedCalls == {c \in handlersOn : callState[c] # "ended"}

\* C7: at every instant at most one call session is non-Idle: at most one call
\* has been placed or accepted, holds local media and has not ended.
C7_AtMostOneSession == Cardinality(EngagedCalls) <= 1

\* C8: when the reject of a call that arrived during an active session
\* completes, by returning or by throwing, the session's state (currentCall,
\* localStream, remoteStream, isVideo, isInCall) is left as it was.
C8_AutoRejectKeepsSession ==
    [][\A c \in Calls :
          (incPc[c] = "autorejecting" /\ incPc'[c] # "autorejecting")
          => UNCHANGED <<currentCall, localStream, remoteStream, isVideo, isInCall>>]_vars

NoSessionActive ==
    /\ ~isInCall
    /\ currentCall = NoCall
    /\ ~uiInCall
    /\ \A m \in MakeSlots : mk[m].pc = "idle"
    /\ \A c \in Calls : incPc[c] \in {"none", "done"}
    /\ \A c \in Calls : callState[c] \in {"none", "ended"}

\* C9: once no session is active (every call has ended, the manager and the
\* UI are idle and no makeCall or handleIncomingCall is in flight) no acquired
\* stream is left with running tracks.
C9_StreamsReleased ==
    NoSessionActive => \A s \in Streams : streams[s] # "live"

\* C10: in the state right after a getUserMedia failure was handled, in
\* makeCall or after accepting an incoming call, the manager is Idle
\* (isInCall false, currentCall null, no media handle held) and the toast
\* shown tells permission denied, device not found and device busy apart.
C10_MediaFailureToIdle ==
    lastMediaError # "none" =>
        /\ ~isInCall
        /\ currentCall = NoCall
        /\ localStream = NoStream
        /\ remoteStream = NoStream
        /\ lastMediaError = "NotAllowedError"
              => toasts \cap {"denied", "notfound", "busy"} = {"denied"}
        /\ lastMediaError = "NotFoundError"
              => toasts \cap {"denied", "notfound", "busy"} = {"notfound"}
        /\ lastMediaError = "NotReadableError"
              => toasts \cap {"denied", "notfound", "busy"} = {"busy"}

\* C10 witness: a busy device failed the acquisition of an accepted incoming
\* call (no "Failed to start call" toast), after an earlier call had run.
C10_Witness ==
    /\ lastMediaError = "NotReadableError"
    /\ "startfail" \notin toasts
    /\ \E c \in Calls : incPc[c] = "done" /\ callState[c] = "ringing"

HasNode(d, e, k) == \E i \in DOMAIN d : d[i] = Node(e, k)

\* C11: when an event rendered as an error node decrypts, the step that
\* delivers the notification leaves exactly one node for the event, a
\* non-error one at the position of the error node, changes no other node
\* and appends nothing.
C11_ReplacedInPlace ==
    [][\A e \in EventIds :
          (/\ evState[e] = "failed"
           /\ evState'[e] = "clear"
           /\ currentRoomId = RoomA
           /\ HasNode(dom, e, "error"))
          => /\ Len(dom') = Len(dom)
             /\ Count(dom', e) = 1
             /\ ~HasNode(dom', e, "error")
             /\ dom'[FirstIndex(dom, e)] = Node(e, "text")
             /\ \A i \in DOMAIN dom : dom[i].id # e => dom'[i] = dom[i]]_vars

\* C12: an event that is rendered with its cleartext is not rendered as a
\* decryption error by the next step, whatever operation that step belongs to.
C12_CleartextRetained ==
    [][\A e \in EventIds :
          HasNode(dom, e, "text") => ~HasNode(dom', e, "error")]_vars

\* C13: a retry for an event that is not in decryption failure issues no key
\* request and changes nothing about the event.
C13_RetryIdempotent ==
    [][(clsOp' = "retry" /\ clsRuns' # clsRuns /\ clsEvent.dec # "failed")
        => (keyReqs' = keyReqs /\ clsEvent' = clsEvent)]_vars

C15_ClassifyNoSideEffect ==
    [][(clsOp' = "classify" /\ clsRuns' # clsRuns)
        => (keyReqs' = keyReqs /\ clsEvent' = clsEvent /\ me' = me)]_vars

\* The kind the classification table assigns to a plaintext or decrypted event.
ExpectedKind(ev) ==
    IF ev.type = "m.room.message"
    THEN IF ev.rel = "m.replace" /\ ev.newContent THEN "edit"
         ELSE IF ev.msgtype \in {"m.text", "m.notice", "m.emote"} THEN "text"
         ELSE IF ev.msgtype \in {"m.image", "m.video", "m.audio", "m.file"} THEN "media"
         ELSE IF ev.msgtype = "m.location" THEN "location"
         ELSE "unknown"
    ELSE IF ev.type = "m.reaction" THEN "reaction"
    ELSE IF ev.type \in {"m.call.invite", "m.call.hangup"} THEN "call"
    ELSE IF ev.type \in {"m.room.member", "m.room.name", "m.room.topic", "m.room.avatar"}
    THEN "system"
    ELSE "unknown"

\* C16: a classification returns a Message for every event shape, and a shape
\* that matches no recognized variant gets kind unknown with the raw type.
C16_NeverRaises ==
    clsOp = "classify" =>
        /\ clsMsg.kind \notin {"none", "raised"}
        /\ (clsEvent.dec # "failed" /\ ExpectedKind(clsEvent) = "unknown")
              => (clsMsg.kind = "unknown" /\ clsMsg.tag = clsEvent.type)

\* C16 witness: a room message without content was classified as unknown.
C16_Witness ==
    /\ clsOp = "classify"
    /\ clsEvent.type = "m.room.message"
    /\ ~clsEvent.hasContent
    /\ clsMsg.kind = "unknown"

\* C17: a plaintext or decrypted event gets the kind of the classification
\* table; an edit carries its target, a reaction its target and key.
C17_KindTable ==
    (clsOp = "classify" /\ clsEvent.dec # "failed") =>
        /\ clsMsg.kind = ExpectedKind(clsEvent)
        /\ clsMsg.kind = "edit" => clsMsg.target = "$target"
        /\ (clsMsg.kind = "reaction" /\ clsEvent.rel # "absent")
              => (clsMsg.target = "$target" /\ clsMsg.key = "+1")

\* C17 witness: an emote was classified as text.
C17_Witness ==
    /\ clsOp = "classify"
    /\ clsEvent.dec = "decrypted"
    /\ clsEvent.msgtype = "m.emote"
    /\ clsMsg.kind = "text"

\* C18: every Message carries the event's sender, and isOwn is true exactly
\* when the sender is the local identity.
C18_SenderAndIsOwn ==
    (clsOp = "classify" /\ clsMsg.kind \notin {"none", "raised"}) =>
        /\ clsMsg.senderId = clsEvent.sender
        /\ clsMsg.isOwn = "true" <=> clsEvent.sender = me

ResolvedMedia == mediaOut # NoMedia

\* C19: a plaintext locator whose primary download fails while the legacy
\* one would succeed resolves to a handle, and the element shows no failure.
C19_LegacyFallback ==
    (/\ ResolvedMedia
     /\ ~mediaIn.file
     /\ mediaIn.url = "mxc"
     /\ mediaNet.primary # "ok"
     /\ mediaNet.legacy = "ok")
    => (/\ mediaOut.result = "blob"
        /\ mediaOut.src
        /\ mediaOut.alt # "Failed to load image")

\* C20: for an encrypted descriptor a failed decrypt-on-fetch ends the
\* resolution with no handle, and no other source was asked.
C20_EncryptedFailureTerminal ==
    (ResolvedMedia /\ mediaIn.file /\ mediaNet.decrypt = "fail")
    => (mediaOut.result = "null" /\ mediaOut.attempts = <<"decrypt">>)

\* C20 witness: decrypt-on-fetch failed for a message that also carries a
\* plaintext locator the primary download would have served.
C20_Witness ==
    /\ ResolvedMedia
    /\ mediaIn.file
    /\ mediaIn.url = "mxc"
    /\ mediaNet.decrypt = "fail"
    /\ mediaNet.primary = "ok"
    /\ mediaOut.result = "null"

Renderable(e) == bShape[e].kind \in {"text", "failed", "media"}

OnlyTargetBody(d1, d2, target) ==
    /\ Len(d2) = Len(d1)
    /\ \A i \in DOMAIN d1 :
         \/ d2[i] = d1[i]
         \/ /\ d1[i].id = target
            /\ d2[i] = [d1[i] EXCEPT !.body = "edited"]

C23_NoStandaloneNode ==
    /\ [](\A i \in DOMAIN bDom : bDom[i].kind \in {"text", "error", "media"})
    /\ [][\A e \in DomIds(bDom') \ DomIds(bDom) :
             bShape'[e].kind \notin {"edit", "reaction"}]_vars
    /\ [][(/\ bOp'.name \in {"live", "decrypted"}
           /\ bOp' # bOp
           /\ bShape'[bOp'.id].kind = "edit")
          => OnlyTargetBody(bDom, bDom', EditTarget(bOp'.id))]_vars

\* C23 witness: an edit was delivered live and the node of its target
\* carries the new body.
C23_Witness ==
    /\ bOp.name = "live"
    /\ bLoaded
    /\ bShape[bOp.id].kind = "edit"
    /\ \E i \in DOMAIN bDom :
         bDom[i].id = EditTarget(bOp.id) /\ bDom[i].body = "edited"

\* C24: the nodes of events delivered live stand in the rendered timeline in
\* the order of their delivery (event ids are handed out in delivery order;
\* every id above MaxOlder was delivered live).
C24_LiveOrder ==
    \A i, j \in DOMAIN dom :
        (/\ i < j
         /\ dom[i].id > MaxOlder
         /\ dom[j].id > MaxOlder
         /\ dom[i].id # dom[j].id)
        => dom[i].id < dom[j].id

\* C25: the echo of a registered own event is suppressed and its
\* registration is gone from pendingEchos from that moment on.
C25_SuppressedOnce ==
    \A e \in EventIds : echoSeen[e] = "suppressed" => e \notin pendingEchos

\* C26: an echo that arrives after its registration was made and has expired
\* is not suppressed: it is appended to the rendered timeline like any other
\* inbound event of the open conversation.
C26_LateEchoInserted ==
    [][\A e \in EventIds :
          (/\ echoSeen[e] = "no"
           /\ echoSeen'[e] # "no"
           /\ sendPc[e] = "responded"
           /\ e \notin pendingEchos
           /\ currentRoomId = RoomA)
          => (/\ echoSeen'[e] = "late"
              /\ dom' = Append(dom, Node(e, "text"))
              /\ scrollTop' = scrollToBottom(dom', hasSentinel))]_vars

\* C26 witness: an echo came after the expiry of its registration and has
\* its node.
C26_Witness ==
    \E e \in EventIds :
        /\ echoSeen[e] = "late"
        /\ e \notin pendingEchos
        /\ HasNode(dom, e, "text")

\* C27: whenever the live handler has processed the echo of an own event,
\* the registration of that event had been made before.
C27_RegisteredBeforeEcho ==
    \A e \in EventIds : echoSeen[e] # "no" => sendPc[e] = "responded"

\* C28: right after a loadOlderMessages page, the nodes it inserted stand at
\* the top of the container, above everything rendered before, in the order
\* oldest to newest from top to bottom.
C28_PageOrder ==
    bOp.name = "page" =>
        /\ Len(bDom) >= Len(bNew)
        /\ \A i \in DOMAIN bNew : bDom[i].id = bNew[i]

\* C29: the step that opens a conversation leaves the pagination cursor
\* fresh: canLoadMore is true and no loadOlderMessages counts as in flight.
C29_FreshCursorOnOpen ==
    [][(loaders["open"].pc = "idle" /\ loaders'["open"].pc = "ack")
        => (canLoadMore' /\ ~isLoadingOlder')]_vars

\* C30: canLoadMore goes from true to false only in a step that finishes a
\* loadOlderMessages whose pagination request succeeded (and reported that
\* nothing older is left); a failed request leaves it true.
C30_FalseOnlyOnReport ==
    [][(canLoadMore /\ ~canLoadMore') => (olderLog'.done /\ ~olderLog'.failed)]_vars

\* C31: once the key request for an undecryptable live event of the open
\* conversation has been issued, its error Message has been yielded for
\* rendering, whether or not the request has completed.
C31_ErrorNotDelayed ==
    \A e \in liveTasks : HasNode(dom, e, "error")

\* C32: every media Message the classifier returns carries exactly one of a
\* plaintext locator (url) and an encrypted descriptor (file).
C32_ExactlyOneSource ==
    clsMsg.kind = "media" => ((clsMsg.url # "null") # (clsMsg.file # "null"))

\* C33: for a plaintext locator the primary download is asked first and
\* once; the legacy download is asked, once, exactly when the primary failed
\* (rejected or answered a non-success status); when both failed the result
\* is a failure that lists both attempts.
C33_PrimaryThenLegacy ==
    (ResolvedMedia /\ ~mediaIn.file /\ mediaIn.url = "mxc")
    => IF mediaNet.primary = "ok"
       THEN mediaOut.attempts = <<"primary">>
       ELSE /\ mediaOut.attempts = <<"primary", "legacy">>
            /\ mediaNet.legacy = "fail" => mediaOut.result = "null"

\* C34: when the bounded thumbnail variant of a plaintext locator could not
\* be fetched, the full-resolution variant was asked as well before the item
\* is shown as unavailable.
C34_ThumbnailFallsBack ==
    (/\ ResolvedMedia
     /\ mediaOut.thumb
     /\ ~mediaIn.file
     /\ mediaIn.url = "mxc"
     /\ mediaNet.primary # "ok")
    => Len(mediaOut.attempts) >= 2

\* C35: a step in which the active call reports a signaling error (its
\* error event, a rejected placeCall, a rejected answer) ends with the
\* orchestrator idle, every media stream released, the call UI switched
\* back and a diagnostic on display.
SignalingErrorStep ==
    \/ toasts' = {"callerror"} /\ toasts # {"callerror"}
    \/ \E m \in MakeSlots :
          /\ mk[m].pc = "placing" /\ mk'[m].pc = "idle"
          /\ callState[mk[m].call] # "ended" /\ callState'[mk[m].call] = "ended"
    \/ \E c \in Calls :
          /\ incPc[c] = "answering" /\ incPc'[c] = "done"
          /\ callState[c] # "ended" /\ callState'[c] = "ended"

C35_SignalingErrorEndsSession ==
    [][SignalingErrorStep
        => (/\ ~isInCall'
            /\ currentCall' = NoCall
            /\ localStream' = NoStream
            /\ \A s \in Streams : streams'[s] # "live"
            /\ ~uiInCall'
            /\ toasts' # {})]_vars

\* C38: when a call that has handlers attached but is not the current
\* session ends, the current session keeps its call, its streams and its
\* in-call state.
C38_StaleCallEventsIgnored ==
    [][\A c \in Calls :
          (/\ c \in handlersOn
           /\ currentCall # NoCall
           /\ c # currentCall
           /\ callState[c] # "ended"
           /\ callState' = [callState EXCEPT ![c] = "ended"]
           /\ mk' = mk
           /\ incPc' = incPc)
          => UNCHANGED <<currentCall, localStream, remoteStream, isInCall, isVideo,
                         streams>>]_vars

\* C40: whenever no makeCall and no incoming-call handling is under way,
\* the call UI was last told inCall = true exactly when isInCall is true.
NoCallOperationInFlight ==
    /\ \A m \in MakeSlots : mk[m].pc = "idle"
    /\ \A c \in Calls : incPc[c] \in {"none", "done"}

C40_UiAgreesWithState ==
    NoCallOperationInFlight => (uiInCall <=> isInCall)

\* C39: while no loadOlderMessages is under way the in-flight guard is
\* released, and a request made then is turned down only because canLoadMore
\* is false.
C39_GuardReleased ==
    /\ [](older.pc = "idle" => ~isLoadingOlder)
    /\ [][(older.pc = "idle" /\ lastCall' = "rejected") => ~canLoadMore]_vars

\* C39 witness: a loadOlderMessages whose pagination request failed has
\* finished and the guard is released.
C39_Witness ==
    /\ olderLog.done
    /\ olderLog.failed
    /\ older.pc = "idle"
    /\ ~isLoadingOlder

\* C37: once the open conversation is loaded and no load, pagination or
\* live render is under way, every event that was delivered live (every id
\* above MaxOlder) has a node in the rendered timeline.
C37_LiveEventKept ==
    (/\ currentRoomId = RoomA
     /\ hasSentinel
     /\ \A l \in Loaders : loaders[l].pc = "idle"
     /\ older.pc = "idle"
     /\ liveTasks = {})
    => \A i \in DOMAIN timeline :
          timeline[i] > MaxOlder => timeline[i] \in DomIds(dom)

\* C36: when conversation B is the current one and its loadMessages has
\* completed, the container holds no node of an event of conversation A
\* (every event of the model belongs to A).
C36_OnlyCurrentConversation ==
    (currentRoomId = RoomB /\ loaders["open"].pc = "idle")
    => DomIds(dom) \subseteq {NoId}

\* ---------------------------------------------------------- specifications
\* Every interleaving of live delivery, initial load, reload after Retry,
\* backward pagination and decryption replacement.  The user does not scroll:
\* the observer calls loadOlderMessages while the sentinel is in view.
Next ==
    \/ LiveDeliver
    \/ LiveResume
    \/ DecryptSuccess
    \/ OpenConversation
    \/ OpenAckFail
    \/ RetryClick
    \/ LoadMessagesBegin
    \/ LoadMessagesResume
    \/ LoadOlderMessages
    \/ PaginateReturn
    \/ PaginateFail
    \/ LoadOlderResume

Spec == InitTL /\ [][Next]_vars

\* Backward pagination with a scrolling user, live delivery and the initial load.
NextPage ==
    \/ LiveDeliver
    \/ LiveResume
    \/ OpenConversation
    \/ OpenAckFail
    \/ LoadMessagesBegin
    \/ LoadMessagesResume
    \/ UserScrollToTop
    \/ LoadOlderMessages
    \/ PaginateReturn
    \/ PaginateFail
    \/ LoadOlderResume

SpecPage == InitTL /\ [][NextPage]_vars

\* Sending and echo suppression, with live delivery and the initial load.
NextEcho ==
    \/ LiveDeliver
    \/ LiveResume
    \/ SendStart
    \/ SendAccepted
    \/ SendUnknownDevice
    \/ SendFail
    \/ SendResponse
    \/ ExpireEcho
    \/ EchoDeliver
    \/ OpenConversation
    \/ OpenAckFail
    \/ LoadMessagesBegin
    \/ LoadMessagesResume

SpecEcho == InitTL /\ [][NextEcho]_vars

\* Call signalling: a conversation is opened, then calls are made, received,
\* answered, declined and ended.
NextCall ==
    \/ OpenConversation
    \/ MakeCall
    \/ MakeCallMedia
    \/ MakeCallMediaFail
    \/ MakeCallPlaced
    \/ MakeCallPlaceFail
    \/ IncomingCall
    \/ RejectReturn
    \/ RejectThrow
    \/ DialogAccept
    \/ DialogDecline
    \/ IncomingMedia
    \/ IncomingMediaFail
    \/ IncomingAnswered
    \/ IncomingAnswerFail
    \/ RemoteEnds
    \/ FeedsChanged
    \/ CallError
    \/ Hangup

SpecCall == InitTL /\ [][NextCall]_vars

\* Classification and manual retry of one event.
NextClassify ==
    \/ Classify
    \/ RetryDecryption

SpecClassify == InitClassify /\ [][NextClassify]_vars

\* Rendering of one media message.
NextMedia ==
    \/ CreateMediaElement
    \/ RenderAgain

SpecMedia == InitMedia /\ [][NextMedia]_vars

\* batches of mixed events: load, pagination, live delivery, decryption
NextBatch ==
    \/ LoadBatch
    \/ PageBatch
    \/ LiveBatch
    \/ DecryptedBatch

SpecBatch == InitBatch /\ [][NextBatch]_vars

\* two conversations: A with its events, B opened while work for A is suspended
NextSwitch ==
    \/ LiveDeliver
    \/ LiveResume
    \/ OpenConversation
    \/ OpenOther
    \/ LoadMessagesBegin
    \/ LoadMessagesResume
    \/ LoadMessagesOther
    \/ LoadOlderMessages
    \/ PaginateReturn
    \/ PaginateFail
    \/ LoadOlderResume

SpecSwitch == InitTL /\ [][NextSwitch]_vars

====
